---- MODULE Spec2Model ----
(***************************************************************************)
(* Model of pi_self_monitor.py: a background poll thread (update_loop)     *)
(* that writes the module-level dict STATE (State below), and the          *)
(* single-threaded HTTPServer whose handler (PiMonitorHandler.do_GET)      *)
(* reads it.                                                               *)
(*                                                                         *)
(* Python values are encoded as pairs <<type, value>>, None as the empty   *)
(* sequence, dicts as functions over their keys.  Each record returned by  *)
(* a collector carries one extra key "cycle", which is not in the source:  *)
(* it is the number of the poll cycle that built the record, and is what   *)
(* the properties about poll cycles are stated on; and a key "seq", the    *)
(* number of that cycle among the cycles whose collectors did not raise.   *)
(***************************************************************************)
EXTENDS Integers, Sequences, FiniteSets, TLC

\* ---------------------------------------------------------------- bounds
MaxCycles == 2
MaxLines == 6

\* ------------------------------------------------------- Python encoding
None == <<>>
Num(n) == <<"num", n>>
Bool(b) == <<"bool", b>>
Str(s) == <<"str", s>>
EmptyDict == [k \in {} |-> None]

\* d.get(k, default)
Get(d, k, default) == IF k \in DOMAIN d THEN d[k] ELSE default

\* d[k] = v
Put(d, k, v) == (k :> v) @@ d

\* ------------------------------------------------------------------ text
\* The output of a command is a sequence of lines; "" and " " are the lines
\* with nothing but white space on them.
IsBlank(l) == l = "" \/ l = " "

RECURSIVE LStrip(_)
LStrip(t) == IF Len(t) > 0 /\ IsBlank(Head(t)) THEN LStrip(Tail(t)) ELSE t

RECURSIVE RStrip(_)
RStrip(t) == IF Len(t) > 0 /\ IsBlank(t[Len(t)]) THEN RStrip(SubSeq(t, 1, Len(t) - 1)) ELSE t

\* str.strip(), as far as whole lines go
Strip(t) == RStrip(LStrip(t))

\* ---------------------------------------------------------------- config
POLL_INTERVAL == 10

PIHOLE_SERVICES == <<"pihole-FTL.service">>
PIVPN_SERVICES == <<"wg-quick@wg0.service", "openvpn.service", "openvpn-server@server.service">>

\* ---------------------------------------------------------------- helpers
\* A process is what subprocess.check_output meets: ok is FALSE for a
\* missing binary, a non-zero exit or a timeout, out is what it printed.
run_cmd(proc) == IF proc.ok THEN Strip(proc.out) ELSE <<>>

service_active(unit_name, units) ==
    IF unit_name = "" THEN FALSE
    ELSE Strip(run_cmd(units[unit_name])) = <<"active">>

\* all(service_active(s) for s in services)
any_active_all(services, units) == \A i \in DOMAIN services : service_active(services[i], units)

\* any(service_active(s) for s in services)
any_active(services, units) == \E i \in DOMAIN services : service_active(services[i], units)

\* A file is Missing, Unreadable (open or read raises), or its content: Num(x)
\* for text that float() parses to x, Str(..) for any other text.
\* Temperatures are counted in units of 1/TempScale degree.
Missing == <<"missing">>
Unreadable == <<"unreadable">>
TempScale == 10000

\* the threshold test with >= in place of >
MilliDegrees_ge(x) == IF x >= 200 * TempScale THEN x \div 1000 ELSE x

\* float(val) / 1000.0 if float(val) > 200 else float(val)
MilliDegrees(x) == IF x > 200 * TempScale THEN x \div 1000 ELSE x

RECURSIVE TempFrom(_, _)
\* the loop over the candidate paths, from the i-th on
TempFrom(files, i) ==
    IF i > Len(files) THEN None
    ELSE IF files[i] = Missing THEN TempFrom(files, i + 1)
    ELSE IF files[i] # Unreadable /\ files[i][1] = "num" THEN Num(MilliDegrees(files[i][2]))
    ELSE TempFrom(files, i + 1)

get_cpu_temp_c(files) == TempFrom(files, 1)

get_uptime_seconds(file) ==
    IF file # Missing /\ file # Unreadable /\ file[1] = "num" THEN file ELSE None

\* ------------------------------------------------------------- collectors
\* An exception leaving a function is the value Raised(text).
Raised(text) == [raised |-> text]
IsRaised(r) == "raised" \in DOMAIN r

collect_system_stats(c, m) ==
    [cycle |-> c, time |-> Num(c), cpu_percent |-> Num(12),
     load_1 |-> Num(1), load_5 |-> Num(2), load_15 |-> Num(3),
     mem_total |-> Num(4096), mem_used |-> Num(1024), mem_percent |-> Num(25),
     disk_total |-> Num(32000), disk_used |-> Num(16000), disk_percent |-> Num(50),
     temp_c |-> get_cpu_temp_c(m.thermal), uptime_seconds |-> get_uptime_seconds(m.uptime)]

\* json.loads on the texts the model uses: an object, three documents that
\* are JSON but no object, and anything else, which is no JSON
JsonObjectText == "{\"dns_queries_today\": 120, \"ads_blocked_today\": 30, \"domains_being_blocked\": \"1,234\", \"status\": \"enabled\"}"
JsonObject == [dns_queries_today |-> Num(120), ads_blocked_today |-> Num(30), domains_being_blocked |-> Str("1,234"), status |-> Str("enabled")]
JsonNonObjects == {"[1, 2]", "null", "17"}

json_loads(raw) ==
    IF raw = <<JsonObjectText>> THEN [kind |-> "dict", value |-> JsonObject]
    ELSE IF Len(raw) = 1 /\ raw[1] \in JsonNonObjects THEN [kind |-> "other", value |-> EmptyDict]
    ELSE [kind |-> "error", value |-> EmptyDict]

\* the allowlist, filled from a parsed object
FullStats == [dns_queries_today |-> Num(120), ads_blocked_today |-> Num(30), ads_percentage_today |-> None, domains_being_blocked |-> Str("1,234")]

AllowedKeys == {"dns_queries_today", "ads_blocked_today", "ads_percentage_today", "domains_being_blocked"}

\* the parse without its try/except: the exception leaves the collector
pihole_stats_of_uncaught(raw) ==
    IF Len(raw) = 0 THEN EmptyDict
    ELSE IF json_loads(raw).kind = "error" THEN Raised(Str("JSONDecodeError"))
    ELSE IF json_loads(raw).kind = "other" THEN Raised(Str("AttributeError"))
    ELSE [k \in AllowedKeys |-> Get(json_loads(raw).value, k, None)]

\* stats = {}; if raw: try: ... except Exception: pass
pihole_stats_of(raw) ==
    IF Len(raw) = 0 THEN EmptyDict
    ELSE IF json_loads(raw).kind = "error" THEN EmptyDict
    ELSE IF json_loads(raw).kind = "other" THEN EmptyDict
    ELSE [k \in AllowedKeys |-> Get(json_loads(raw).value, k, None)]

collect_pihole_stats(c, m) ==
    IF IsRaised(pihole_stats_of(run_cmd(m.pihole_cmd))) THEN pihole_stats_of(run_cmd(m.pihole_cmd))
    ELSE [cycle |-> c,
          service_ok |-> Bool(any_active(PIHOLE_SERVICES, m.units)),
          stats |-> pihole_stats_of(run_cmd(m.pihole_cmd))]

NonBlank(l) == ~IsBlank(l)

\* the count without the filter on blank lines
connected_clients_of_unfiltered(raw) ==
    IF Len(raw) > 3 THEN Num(Len(raw) - 3) ELSE None

\* lines = [l for l in raw.splitlines() if l.strip()], and the count
connected_clients_of(raw) ==
    IF Len(raw) = 0 THEN None
    ELSE IF Len(SelectSeq(raw, NonBlank)) > 3 THEN Num(Len(SelectSeq(raw, NonBlank)) - 3)
    ELSE None

collect_pivpn_stats(c, m) ==
    [cycle |-> c,
     service_ok |-> Bool(any_active(PIVPN_SERVICES, m.units)),
     connected_clients |-> connected_clients_of(run_cmd(m.pivpn_cmd))]

\* ------------------------------------------ what the collectors can observe
\* A machine is what the collectors find during one cycle: the two thermal
\* files, /proc/uptime, the process "systemctl is-active" of each unit, and
\* the processes "pihole -c -j" and "pivpn -c"; took is the time the three
\* collectors need there, in seconds.
Units == {PIHOLE_SERVICES[i] : i \in DOMAIN PIHOLE_SERVICES} \cup {PIVPN_SERVICES[i] : i \in DOMAIN PIVPN_SERVICES}

Failed == [ok |-> FALSE, out |-> <<>>]
Printed(t) == [ok |-> TRUE, out |-> t]
Inactive == [ok |-> FALSE, out |-> <<"inactive", "">>]
Active == Printed(<<"active", "">>)

ClientList(n) == Printed(<<"::: Connected Clients List :::", "", "Name", "Remote IP">> \o [i \in 1..n |-> "client"] \o <<"">>)

\* The eight machines of the poll loop contain every combination of any two
\* of: temperature readable, uptime readable, pihole active, a vpn unit
\* active, pihole stats well-formed, client list long enough.
Observations ==
    { [thermal |-> IF a THEN <<Missing, Num(45000 * TempScale)>> ELSE <<Missing, Str("n/a")>>,
       uptime |-> IF b THEN Num(90061) ELSE Unreadable,
       units |-> [u \in Units |->
                    IF u = "pihole-FTL.service" THEN (IF c THEN Active ELSE Inactive)
                    ELSE IF u = "openvpn.service" THEN (IF a # b THEN Active ELSE Inactive)
                    ELSE Failed],
       pihole_cmd |-> IF a # c THEN Printed(<<JsonObjectText, "">>)
                      ELSE IF a /\ b THEN Printed(<<"[1, 2]", "">>)
                      ELSE IF a THEN Printed(<<"not json">>)
                      ELSE IF b THEN Printed(<<"">>)
                      ELSE Failed,
       pivpn_cmd |-> IF b # c THEN ClientList(2)
                     ELSE IF a THEN ClientList(0)
                     ELSE Failed,
       took |-> IF c THEN 1 ELSE 2] : a \in BOOLEAN, b \in BOOLEAN, c \in BOOLEAN }

NoMachine == [cycle |-> 0]

\* The machines the collectors are probed with one at a time: each set varies
\* what one collector reads and leaves the rest at DefaultMachine.
DefaultMachine ==
    [thermal |-> <<Missing, Missing>>, uptime |-> Unreadable, units |-> [u \in Units |-> Failed],
     pihole_cmd |-> Failed, pivpn_cmd |-> Failed, took |-> 1]

LineKinds == {"", " ", "client"}
Texts(n) == UNION {[1..k -> LineKinds] : k \in 0..n}

PivpnProbes ==
    {[DefaultMachine EXCEPT !.pivpn_cmd = [ok |-> k, out |-> t]] : k \in BOOLEAN, t \in Texts(MaxLines)}

UnitResults == {Active, Inactive, Failed, Printed(<<"activating", "">>), Printed(<<" ", "active", "">>)}

UnitProbes == {[DefaultMachine EXCEPT !.units = f] : f \in [Units -> UnitResults]}

ThermalFiles ==
    {Missing, Unreadable, Str("n/a"), Num(45000 * TempScale), Num(45 * TempScale),
     Num(200 * TempScale - 1000), Num(200 * TempScale), Num(200 * TempScale + 1000)}

ThermalProbes ==
    {[DefaultMachine EXCEPT !.thermal = <<x, y>>, !.uptime = y] : x \in ThermalFiles, y \in ThermalFiles}

PiholeOutputs ==
    {Failed, Printed(<<>>), Printed(<<"", " ">>), Printed(<<"not json">>), Printed(<<"{", "not json">>),
     Printed(<<"[1, 2]", "">>), Printed(<<"null">>), Printed(<<"17">>),
     Printed(<<JsonObjectText, "">>), [ok |-> FALSE, out |-> <<JsonObjectText>>]}

PiholeProbes ==
    {[DefaultMachine EXCEPT !.pihole_cmd = o, !.units = [u \in Units |-> r]] : o \in PiholeOutputs, r \in {Active, Inactive}}

Probes == PivpnProbes \cup UnitProbes \cup ThermalProbes \cup PiholeProbes

Collectors == {"system", "pihole", "pivpn"}

\* str(e) of the exception a collector raised
FaultText(who) == Str("fault in " \o who)

\* the time from the start of the cycle to the exception: the collectors run
\* in this order
FaultDelay(who) == IF who = "system" THEN 1 ELSE IF who = "pihole" THEN 2 ELSE 3

\* ------------------------------------------------------------------ state
VARIABLES State, pc, cycle, elapsed, machine, system_stats, pihole_stats, pivpn_stats,
          hpc, path, sys_s, ph_s, pv_s, resp

pollVars == <<pc, cycle, elapsed, machine, system_stats, pihole_stats, pivpn_stats>>
handlerVars == <<hpc, path, sys_s, ph_s, pv_s, resp>>
vars == <<State, pc, cycle, elapsed, machine, system_stats, pihole_stats, pivpn_stats, hpc, path, sys_s, ph_s, pv_s, resp>>

\* nothing was sent: no request yet, one in progress, or the handler raised
NoResponse == [status |-> 0, headers |-> <<>>, content_type |-> "", body |-> None]

Init ==
    /\ State = [system |-> EmptyDict, pihole |-> EmptyDict, pivpn |-> EmptyDict]
    /\ pc = "collect"
    /\ cycle = 1
    /\ elapsed = 0
    /\ machine = NoMachine
    /\ system_stats = EmptyDict
    /\ pihole_stats = EmptyDict
    /\ pivpn_stats = EmptyDict
    /\ hpc = "idle"
    /\ path = ""
    /\ sys_s = EmptyDict
    /\ ph_s = EmptyDict
    /\ pv_s = EmptyDict
    /\ resp = NoResponse

\* ------------------------------------------------------------ update_loop
\* The three collector calls touch no shared state, so they are one step,
\* taken on the machines of the set M.  If a call raises, the rest of the try
\* body is skipped and the except clause writes last_error.
CollectOn(M) ==
    /\ pc = "collect"
    /\ \E o \in M :
          LET n == Get(system_stats, "seq", 0) + 1
              s == collect_system_stats(cycle, o) @@ [seq |-> n]
              p == collect_pihole_stats(cycle, o) @@ [seq |-> n]
              v == collect_pivpn_stats(cycle, o) @@ [seq |-> n]
          IN /\ machine' = o @@ [cycle |-> cycle]
             /\ elapsed' = o.took
             /\ IF IsRaised(s) \/ IsRaised(p) \/ IsRaised(v)
                THEN /\ State' = Put(State, "last_error",
                                     IF IsRaised(s) THEN s.raised ELSE IF IsRaised(p) THEN p.raised ELSE v.raised)
                     /\ pc' = "sleep"
                     /\ UNCHANGED <<system_stats, pihole_stats, pivpn_stats>>
                ELSE /\ system_stats' = s
                     /\ pihole_stats' = p
                     /\ pivpn_stats' = v
                     /\ pc' = "store_system"
                     /\ UNCHANGED State
    /\ UNCHANGED <<cycle, handlerVars>>

Collect == CollectOn(Observations)

\* the collectors run on one of the probe machines
CollectProbe == CollectOn(Probes)

\* the except clause without the write of last_error
CollectRaise_swallow ==
    /\ pc = "collect"
    /\ pc' = "sleep"
    /\ UNCHANGED <<State, cycle, elapsed, machine, system_stats, pihole_stats, pivpn_stats, handlerVars>>

\* no except clause: the exception ends the poll thread
CollectRaise_dies ==
    /\ pc = "collect"
    /\ pc' = "dead"
    /\ UNCHANGED <<State, cycle, elapsed, machine, system_stats, pihole_stats, pivpn_stats, handlerVars>>

\* the except clause also empties the records
CollectRaise_reset ==
    /\ pc = "collect"
    /\ \E who \in Collectors :
          /\ State' = [system |-> EmptyDict, pihole |-> EmptyDict, pivpn |-> EmptyDict, last_error |-> FaultText(who)]
          /\ elapsed' = FaultDelay(who)
    /\ pc' = "sleep"
    /\ UNCHANGED <<cycle, machine, system_stats, pihole_stats, pivpn_stats, handlerVars>>

\* One of the collectors raises: control goes to the except clause, which
\* writes last_error; the three stores of the try body are skipped.
CollectRaise ==
    /\ pc = "collect"
    /\ \E who \in Collectors :
          /\ State' = Put(State, "last_error", FaultText(who))
          /\ elapsed' = FaultDelay(who)
    /\ pc' = "sleep"
    /\ UNCHANGED <<cycle, machine, system_stats, pihole_stats, pivpn_stats, handlerVars>>

\* a cycle that succeeds removes last_error
StoreSystem_clears ==
    /\ pc = "store_system"
    /\ State' = [k \in (DOMAIN State \ {"last_error"}) |-> IF k = "system" THEN system_stats ELSE State[k]]
    /\ pc' = "store_pihole"
    /\ UNCHANGED <<cycle, elapsed, machine, system_stats, pihole_stats, pivpn_stats, handlerVars>>

StoreSystem ==
    /\ pc = "store_system"
    /\ State' = Put(State, "system", system_stats)
    /\ pc' = "store_pihole"
    /\ UNCHANGED <<cycle, elapsed, machine, system_stats, pihole_stats, pivpn_stats, handlerVars>>

StorePihole ==
    /\ pc = "store_pihole"
    /\ State' = Put(State, "pihole", pihole_stats)
    /\ pc' = "store_pivpn"
    /\ UNCHANGED <<cycle, elapsed, machine, system_stats, pihole_stats, pivpn_stats, handlerVars>>

\* the third store is missing
StorePivpn_skip ==
    /\ pc = "store_pivpn"
    /\ pc' = "sleep"
    /\ UNCHANGED <<State, cycle, elapsed, machine, system_stats, pihole_stats, pivpn_stats, handlerVars>>

StorePivpn ==
    /\ pc = "store_pivpn"
    /\ State' = Put(State, "pivpn", pivpn_stats)
    /\ pc' = "sleep"
    /\ UNCHANGED <<cycle, elapsed, machine, system_stats, pihole_stats, pivpn_stats, handlerVars>>

\* time.sleep(POLL_INTERVAL) returns and the while loop starts the next cycle.
\* elapsed is the time since the start of the latest cycle whose collectors
\* have been called: where pc = "collect", since the start of the cycle before.
Sleep ==
    /\ pc = "sleep"
    /\ cycle < MaxCycles
    /\ cycle' = cycle + 1
    /\ elapsed' = elapsed + POLL_INTERVAL
    /\ pc' = "collect"
    /\ UNCHANGED <<State, machine, system_stats, pihole_stats, pivpn_stats, handlerVars>>

update_loop == Collect \/ CollectRaise \/ StoreSystem \/ StorePihole \/ StorePivpn \/ Sleep

\* ------------------------------------------------------------ HTTP handler
Paths == {"/health", "/metrics", "/", "/nope", "/health/"}

ResponseHeaders == <<"Content-Type", "Content-Length">>

\* "OK" if ok else "DOWN"
bool_to_status_truthy(ok) ==
    IF ok # None /\ ok # Bool(FALSE) THEN "OK" ELSE "DOWN"

bool_to_status(ok) ==
    IF ok = Bool(TRUE) THEN "OK"
    ELSE IF ok = Bool(FALSE) THEN "DOWN"
    ELSE "UNKNOWN"

\* the truth value Python gives a value in "if v" / "1 if v else 0"
Truthy(v) == v # None /\ v # Bool(FALSE) /\ v # Num(0) /\ v # Str("")

\* isinstance(v, (int, float))
IsNumber(v) == v # None /\ v[1] = "num"

_send_json(obj, status) ==
    [status |-> status, headers |-> ResponseHeaders, content_type |-> "application/json", body |-> obj]

_send_text(text, status, content_type) ==
    [status |-> status, headers |-> ResponseHeaders, content_type |-> content_type, body |-> text]

\* "or" in place of "and"
overall_ok_any(p, v) == Get(p, "service_ok", None) = Bool(TRUE) \/ Get(v, "service_ok", None) = Bool(TRUE)

\* ph_s.get("service_ok") is True and pv_s.get("service_ok") is True
overall_ok(p, v) == Get(p, "service_ok", None) = Bool(TRUE) /\ Get(v, "service_ok", None) = Bool(TRUE)

handle_health(s, p, v, last_error) ==
    _send_json(
        [system |-> [cpu_percent |-> Get(s, "cpu_percent", None),
                     mem_percent |-> Get(s, "mem_percent", None),
                     disk_percent |-> Get(s, "disk_percent", None),
                     temp_c |-> Get(s, "temp_c", None),
                     uptime_seconds |-> Get(s, "uptime_seconds", None)],
         pihole |-> [status |-> bool_to_status(Get(p, "service_ok", None)),
                     stats |-> Get(p, "stats", EmptyDict)],
         pivpn |-> [status |-> bool_to_status(Get(v, "service_ok", None)),
                    connected_clients |-> Get(v, "connected_clients", None)],
         overall_ok |-> overall_ok(p, v),
         last_update |-> Get(s, "time", None),
         last_error |-> last_error],
        200)

\* A text body is a sequence of tokens: a metric line (name, value) or the
\* newline NL.
Line(name, val) == [name |-> name, val |-> val]
NL == [name |-> "\n", val |-> None]

RECURSIVE Join(_, _)
\* sep.join(lines)
Join(lines, sep) ==
    IF Len(lines) = 0 THEN <<>>
    ELSE IF Len(lines) = 1 THEN <<lines[1]>>
    ELSE <<lines[1], sep>> \o Join(Tail(lines), sep)

\* the line is always appended, with 0 for an absent value
OptionalLine_filled(name, val) == <<[name |-> name, val |-> IF val = None THEN Num(0) ELSE val]>>

\* if val is not None: lines.append(f'{name} {val}')
OptionalLine(name, val) == IF val # None THEN <<Line(name, val)>> ELSE <<>>

\* float(v) returns; for other values it raises ValueError or TypeError, which
\* the loop catches (text values here are not numerals)
FloatOk(v) == v[1] \in {"num", "bool"}

StatKeys == <<"dns_queries_today", "ads_blocked_today", "ads_percentage_today", "domains_being_blocked">>

RECURSIVE StatLines(_, _)
\* the loop over the four pihole stat keys, from the i-th key on
StatLines(stats, i) ==
    IF i > Len(StatKeys) THEN <<>>
    ELSE (IF Get(stats, StatKeys[i], None) # None /\ FloatOk(Get(stats, StatKeys[i], None))
          THEN <<Line("pihole_" \o StatKeys[i], Get(stats, StatKeys[i], None))>>
          ELSE <<>>) \o StatLines(stats, i + 1)

handle_metrics(s, p, v) ==
    LET stats == Get(p, "stats", EmptyDict)
        lines ==
            <<Line("pi_cpu_percent", Get(s, "cpu_percent", Num(0))),
              Line("pi_load1", Get(s, "load_1", Num(0))),
              Line("pi_load5", Get(s, "load_5", Num(0))),
              Line("pi_load15", Get(s, "load_15", Num(0))),
              Line("pi_mem_percent", Get(s, "mem_percent", Num(0))),
              Line("pi_disk_percent", Get(s, "disk_percent", Num(0)))>>
            \o OptionalLine("pi_temp_c", Get(s, "temp_c", None))
            \o OptionalLine("pi_uptime_seconds", Get(s, "uptime_seconds", None))
            \o <<Line("pihole_service_ok", IF Truthy(Get(p, "service_ok", None)) THEN Num(1) ELSE Num(0))>>
            \o StatLines(stats, 1)
            \o <<Line("pivpn_service_ok", IF Truthy(Get(v, "service_ok", None)) THEN Num(1) ELSE Num(0))>>
            \o OptionalLine("pivpn_connected_clients", Get(v, "connected_clients", None))
    IN _send_text(Join(lines, NL) \o <<NL>>, 200, "text/plain; version=0.0.4")

\* f"{v:.1f}%" if isinstance(v, (int, float)) else "N/A"
safe_pct(v) == IF IsNumber(v) THEN <<"%.1f%%", v[2]>> ELSE <<"N/A">>

\* the class attribute of the status span
StatusClass(status) ==
    IF status = "OK" THEN "status-ok"
    ELSE IF status = "DOWN" THEN "status-down"
    ELSE "status-unknown"

\* the uptime arithmetic without its "is not None" guard
DashboardRaises_unguarded(s) == ~IsNumber(Get(s, "uptime_seconds", None))

\* uptime // 86400 raises TypeError unless uptime is a number
DashboardRaises(s) == Get(s, "uptime_seconds", None) # None /\ ~IsNumber(Get(s, "uptime_seconds", None))

\* The page, as the values interpolated into the template.  A handler that
\* raises sends nothing: the result is NoResponse.
handle_dashboard(s, p, v, last_error) ==
    LET uptime == Get(s, "uptime_seconds", None)
        stats == Get(p, "stats", EmptyDict)
        pihole_status == bool_to_status(Get(p, "service_ok", None))
        pivpn_status == bool_to_status(Get(v, "service_ok", None))
    IN IF DashboardRaises(s) THEN NoResponse
       ELSE _send_text(
            [last_update |-> Get(s, "time", Str("never")),
             uptime_str |-> IF uptime # None
                            THEN <<uptime[2] \div 86400, "d", (uptime[2] % 86400) \div 3600, "h", (uptime[2] % 3600) \div 60, "m">>
                            ELSE <<"N/A">>,
             footer_error |-> IF Truthy(last_error) THEN last_error ELSE Str(""),
             cpu |-> safe_pct(Get(s, "cpu_percent", None)),
             load |-> <<Get(s, "load_1", Str("N/A")), Get(s, "load_5", Str("N/A")), Get(s, "load_15", Str("N/A"))>>,
             mem |-> safe_pct(Get(s, "mem_percent", None)),
             disk |-> safe_pct(Get(s, "disk_percent", None)),
             temp |-> IF IsNumber(Get(s, "temp_c", None)) THEN <<"%.1f C", Get(s, "temp_c", None)[2]>> ELSE <<"N/A">>,
             pihole_class |-> StatusClass(pihole_status),
             pihole_status |-> pihole_status,
             queries |-> Get(stats, "dns_queries_today", Str("N/A")),
             blocked |-> Get(stats, "ads_blocked_today", Str("N/A")),
             blocked_pct |-> Get(stats, "ads_percentage_today", Str("N/A")),
             pivpn_class |-> StatusClass(pivpn_status),
             pivpn_status |-> pivpn_status,
             pv_clients |-> Get(v, "connected_clients", Str("N/A"))],
            200, "text/html; charset=utf-8")

\* the final else serves the dashboard
Route_default(p) ==
    IF p = "/health" THEN "health"
    ELSE IF p = "/metrics" THEN "metrics"
    ELSE "dashboard"

\* do_GET: which branch of the if/elif chain the path takes
Route(p) ==
    IF p = "/health" THEN "health"
    ELSE IF p = "/metrics" THEN "metrics"
    ELSE IF p = "/" THEN "dashboard"
    ELSE "not_found"

\* A request arrives (the server handles one request at a time); an unknown
\* path is answered at once.
do_GET ==
    /\ hpc \in {"idle", "done"}
    /\ \E p \in Paths :
          /\ path' = p
          /\ IF Route(p) = "not_found"
             THEN /\ resp' = _send_text(Str("Not found"), 404, "text/plain")
                  /\ hpc' = "done"
             ELSE /\ resp' = NoResponse
                  /\ hpc' = "read_system"
    /\ sys_s' = EmptyDict
    /\ ph_s' = EmptyDict
    /\ pv_s' = EmptyDict
    /\ UNCHANGED <<State, pollVars>>

\* sys_s = STATE.get("system", {})
ReadSystem ==
    /\ hpc = "read_system"
    /\ sys_s' = Get(State, "system", EmptyDict)
    /\ hpc' = "read_pihole"
    /\ UNCHANGED <<State, pollVars, path, ph_s, pv_s, resp>>

\* ph_s = STATE.get("pihole", {})
ReadPihole ==
    /\ hpc = "read_pihole"
    /\ ph_s' = Get(State, "pihole", EmptyDict)
    /\ hpc' = "read_pivpn"
    /\ UNCHANGED <<State, pollVars, path, sys_s, pv_s, resp>>

\* pv_s = STATE.get("pivpn", {}); handle_metrics reads nothing more of STATE
ReadPivpn ==
    /\ hpc = "read_pivpn"
    /\ pv_s' = Get(State, "pivpn", EmptyDict)
    /\ IF Route(path) = "metrics"
       THEN /\ resp' = handle_metrics(sys_s, ph_s, pv_s')
            /\ hpc' = "done"
       ELSE /\ resp' = resp
            /\ hpc' = "read_last_error"
    /\ UNCHANGED <<State, pollVars, path, sys_s, ph_s>>

\* STATE.setdefault("last_error") in place of STATE.get("last_error")
ReadLastError_setdefault ==
    /\ hpc = "read_last_error"
    /\ resp' = IF Route(path) = "health"
               THEN handle_health(sys_s, ph_s, pv_s, Get(State, "last_error", None))
               ELSE handle_dashboard(sys_s, ph_s, pv_s, Get(State, "last_error", None))
    /\ State' = IF "last_error" \in DOMAIN State THEN State ELSE Put(State, "last_error", None)
    /\ hpc' = "done"
    /\ UNCHANGED <<pollVars, path, sys_s, ph_s, pv_s>>

\* STATE.get("last_error"), the last read of handle_health and handle_dashboard
ReadLastError ==
    /\ hpc = "read_last_error"
    /\ resp' = IF Route(path) = "health"
               THEN handle_health(sys_s, ph_s, pv_s, Get(State, "last_error", None))
               ELSE handle_dashboard(sys_s, ph_s, pv_s, Get(State, "last_error", None))
    /\ hpc' = "done"
    /\ UNCHANGED <<State, pollVars, path, sys_s, ph_s, pv_s>>

PiMonitorHandler == do_GET \/ ReadSystem \/ ReadPihole \/ ReadPivpn \/ ReadLastError

Next == update_loop \/ PiMonitorHandler

Spec == Init /\ [][Next]_vars

\* One poll cycle on every probe machine: the collectors as functions of
\* what they read.
CollectorNext == CollectProbe \/ StoreSystem \/ StorePihole \/ StorePivpn

CollectorSpec == Init /\ [][CollectorNext]_vars

\* the poll thread is scheduled again and again
FairSpec == Spec /\ WF_vars(update_loop)

\* ---------------------------------------------------------------- claims
\* number of the poll cycle that built a record, 0 for the initial {}
CycleOf(r) == Get(r, "cycle", 0)

Served == hpc = "done" /\ Route(path) # "not_found"

\* C1: the records one response is built from all come from the same poll
\* cycle, or are all the initial empty values.
C1_NoTearing ==
    Served => (CycleOf(sys_s) = CycleOf(ph_s) /\ CycleOf(ph_s) = CycleOf(pv_s))

\* C2: in every state of the store its system, pihole and pivpn records
\* belong to the same poll cycle, or are all the initial empty values.
C2_AtomicPublication ==
    /\ CycleOf(State.system) = CycleOf(State.pihole)
    /\ CycleOf(State.pihole) = CycleOf(State.pivpn)

FirstCycleCompleted == cycle > 1 \/ (cycle = 1 /\ pc = "sleep")

EmptyHealth(r) ==
    /\ r.status = 200
    /\ r.body.pihole.status = "UNKNOWN"
    /\ r.body.pivpn.status = "UNKNOWN"
    /\ r.body.overall_ok = FALSE
    /\ r.body.system = [cpu_percent |-> None, mem_percent |-> None, disk_percent |-> None, temp_c |-> None, uptime_seconds |-> None]
    /\ r.body.last_update = None

\* C3: a /health answered before the first poll cycle has completed is a 200
\* with both statuses UNKNOWN, overall_ok false, and null numeric fields and
\* last_update.
C3_EmptyStateHealth ==
    (hpc = "done" /\ path = "/health" /\ ~FirstCycleCompleted) => EmptyHealth(resp)

FaultTexts == {FaultText(who) : who \in Collectors}

\* a cycle ends in the except clause
C4_Raised == pc = "collect" /\ pc' = "sleep"

\* the handler makes its last read while STATE holds exactly the records it
\* has read: the response is served from the snapshot in the store
C4_ServedFromStore ==
    /\ hpc = "read_last_error" /\ hpc' = "done"
    /\ "last_error" \in DOMAIN State
    /\ sys_s = State.system /\ ph_s = State.pihole /\ pv_s = State.pivpn

\* C4: a cycle in which a collector raises stores the exception's text as
\* last_error next to the records already in the store, and a /health or
\* dashboard response served from that snapshot reports that last_error with
\* the records of the snapshot.
C4_FaultRecording ==
    [][ /\ C4_Raised =>
            /\ "last_error" \in DOMAIN State'
            /\ State'.last_error \in FaultTexts
            /\ State'.system = State.system /\ State'.pihole = State.pihole /\ State'.pivpn = State.pivpn
        /\ (C4_ServedFromStore /\ path = "/health") =>
            /\ resp'.status = 200
            /\ resp'.body.last_error = State.last_error
            /\ resp'.body.last_update = Get(State.system, "time", None)
            /\ resp'.body.system.cpu_percent = Get(State.system, "cpu_percent", None)
            /\ resp'.body.pihole.stats = Get(State.pihole, "stats", EmptyDict)
            /\ resp'.body.pivpn.connected_clients = Get(State.pivpn, "connected_clients", None)
        /\ (C4_ServedFromStore /\ path = "/") =>
            /\ resp'.status = 200
            /\ resp'.body.footer_error = State.last_error
            /\ resp'.body.last_update = Get(State.system, "time", Str("never")) ]_vars

C4_Witness ==
    /\ hpc = "done" /\ path = "/health" /\ resp.status = 200
    /\ resp.body.last_error \in FaultTexts
    /\ resp.body.last_update = Num(1)
    /\ cycle = 2 /\ pc = "sleep"
    /\ sys_s = State.system /\ ph_s = State.pihole /\ pv_s = State.pivpn

\* C5: the poll loop never stops: every cycle below the model's bound,
\* failed or not, is followed by the start of the next one.
C5_PollLoopLive ==
    \A n \in 1..(MaxCycles - 1) : (cycle = n) ~> (cycle = n + 1 /\ pc = "collect")

\* a new cycle starts although the previous one raised
C5_Witness ==
    /\ cycle >= 2 /\ pc = "collect"
    /\ "last_error" \in DOMAIN State
    /\ CycleOf(system_stats) < cycle - 1

C7_OverallOk ==
    (hpc = "done" /\ path = "/health") =>
        (resp.body.overall_ok <=> (resp.body.pihole.status = "OK" /\ resp.body.pivpn.status = "OK"))

C7_Witness ==
    /\ hpc = "done" /\ path = "/health"
    /\ resp.body.pihole.status = "OK" /\ resp.body.pivpn.status = "DOWN"
    /\ resp.body.overall_ok = FALSE

StatusCase(rec, status) ==
    /\ status = "OK" <=> Get(rec, "service_ok", None) = Bool(TRUE)
    /\ status = "DOWN" <=> Get(rec, "service_ok", None) = Bool(FALSE)
    /\ status = "UNKNOWN" <=> "service_ok" \notin DOMAIN rec

ClassCase(rec, class) ==
    /\ class = "status-ok" <=> Get(rec, "service_ok", None) = Bool(TRUE)
    /\ class = "status-down" <=> Get(rec, "service_ok", None) = Bool(FALSE)
    /\ class = "status-unknown" <=> "service_ok" \notin DOMAIN rec

\* C8: the status of each service in /health is OK, DOWN or UNKNOWN as the
\* record's service_ok is true, false or absent, and the dashboard uses the
\* class status-ok, status-down or status-unknown for the same three cases.
C8_ThreeWayStatus ==
    /\ (hpc = "done" /\ path = "/health") =>
            /\ StatusCase(ph_s, resp.body.pihole.status)
            /\ StatusCase(pv_s, resp.body.pivpn.status)
    /\ (hpc = "done" /\ path = "/") =>
            /\ resp.status = 200
            /\ ClassCase(ph_s, resp.body.pihole_class) /\ StatusCase(ph_s, resp.body.pihole_status)
            /\ ClassCase(pv_s, resp.body.pivpn_class) /\ StatusCase(pv_s, resp.body.pivpn_status)

C8_Witness ==
    /\ hpc = "done" /\ path = "/" /\ resp.status = 200
    /\ resp.body.pihole_class = "status-unknown"
    /\ resp.body.pivpn_class = "status-down"

SystemGauges ==
    {<<"pi_cpu_percent", "cpu_percent">>, <<"pi_load1", "load_1">>, <<"pi_load5", "load_5">>,
     <<"pi_load15", "load_15">>, <<"pi_mem_percent", "mem_percent">>, <<"pi_disk_percent", "disk_percent">>}

LinesNamed(body, name) == {i \in DOMAIN body : body[i].name = name}

Present(rec, key) == key \in DOMAIN rec /\ rec[key] # None

KnownPaths == {"/health", "/metrics", "/"}

Collected == machine.cycle = cycle /\ pc # "collect"

\* what a process printed, nothing if it failed
Output(proc) == IF proc.ok THEN proc.out ELSE <<>>

NonEmptyLines(t) == {i \in DOMAIN t : t[i] \notin {"", " "}}

Malformed(proc) ==
    \/ NonEmptyLines(Output(proc)) = {}
    \/ SelectSeq(Output(proc), NonBlank) # <<JsonObjectText>>

ReportedActive(u) == machine.units[u].ok /\ SelectSeq(machine.units[u].out, NonBlank) = <<"active">>

\* C12: on malformed pihole output the collector raises nothing and returns
\* stats {} with service_ok from the liveness check alone; the cycle stores
\* its records, and a /health that then reads the pihole record reports
\* stats {}.
C12_MalformedPihole ==
    (Collected /\ Malformed(machine.pihole_cmd)) =>
        /\ CycleOf(pihole_stats) = cycle
        /\ pihole_stats.stats = EmptyDict
        /\ pihole_stats.service_ok = Bool(ReportedActive("pihole-FTL.service"))
        /\ pc = "sleep" =>
              /\ State.system = system_stats /\ State.pihole = pihole_stats /\ State.pivpn = pivpn_stats
        /\ (hpc = "done" /\ path = "/health" /\ CycleOf(ph_s) = cycle) =>
              /\ resp.status = 200
              /\ resp.body.pihole.stats = EmptyDict
              /\ resp.body.pihole.status = IF ReportedActive("pihole-FTL.service") THEN "OK" ELSE "DOWN"

C12_Witness ==
    /\ Collected /\ pc = "sleep"
    /\ machine.pihole_cmd.ok /\ machine.pihole_cmd.out = <<"not json">>
    /\ hpc = "done" /\ path = "/health" /\ CycleOf(ph_s) = cycle
    /\ resp.body.pihole.stats = EmptyDict /\ resp.body.pihole.status = "OK"

\* C13: service_ok of each service is true iff some unit of its list is
\* reported exactly "active", whatever its position, and false otherwise.
C13_LivenessOr ==
    Collected =>
        /\ pihole_stats.service_ok = Bool(\E i \in DOMAIN PIHOLE_SERVICES : ReportedActive(PIHOLE_SERVICES[i]))
        /\ pivpn_stats.service_ok = Bool(\E i \in DOMAIN PIVPN_SERVICES : ReportedActive(PIVPN_SERVICES[i]))

\* only the last unit of the vpn list is active
C13_Witness ==
    /\ Collected
    /\ ReportedActive(PIVPN_SERVICES[3]) /\ ~ReportedActive(PIVPN_SERVICES[1]) /\ ~ReportedActive(PIVPN_SERVICES[2])
    /\ machine.units[PIVPN_SERVICES[1]] = Printed(<<"activating", "">>)
    /\ pivpn_stats.service_ok = Bool(TRUE)

Parses(file) == file # Missing /\ file # Unreadable /\ file[1] = "num"

\* C14: the temperature comes from the first candidate file that exists and
\* parses: divided by 1000 when the reading is above 200, unchanged when it
\* is 200 or less; it is absent when no candidate parses, and nothing is
\* raised.
C14_Temperature ==
    Collected =>
        LET files == machine.thermal
            temp == system_stats.temp_c
        IN /\ CycleOf(system_stats) = cycle
           /\ (\A i \in DOMAIN files : ~Parses(files[i])) => temp = None
           /\ \A i \in DOMAIN files :
                 (Parses(files[i]) /\ \A j \in 1..(i - 1) : ~Parses(files[j])) =>
                     /\ temp # None
                     /\ files[i][2] > 200 * TempScale => temp[2] * 1000 = files[i][2]
                     /\ files[i][2] <= 200 * TempScale => temp[2] = files[i][2]

\* the first file exists but is no number, the second reads 45000
C14_Witness ==
    /\ Collected
    /\ machine.thermal = <<Str("n/a"), Num(45000 * TempScale)>>
    /\ system_stats.temp_c = Num(45 * TempScale)

\* C15: a cycle starts no later than one POLL_INTERVAL after the start of the
\* cycle before it, however long the collectors took.
C15_FixedSchedule ==
    (pc = "collect" /\ cycle > 1) => elapsed <= POLL_INTERVAL

\* C16: no step of the request handler changes STATE, its keys or its
\* records; every change of STATE is a step of update_loop.
C16_SingleWriter ==
    [][ /\ handlerVars' # handlerVars => State' = State
        /\ State' # State => (pc' # pc /\ handlerVars' = handlerVars) ]_vars

\* /health has been answered, and STATE holds exactly what update_loop
\* stored: the three records, no key added by the handler
C16_Witness ==
    /\ hpc = "done" /\ path = "/health" /\ resp.status = 200
    /\ resp.body.last_error = None /\ resp.body.last_update = Num(1)
    /\ DOMAIN State = {"system", "pihole", "pivpn"}
    /\ State.system = system_stats /\ State.pihole = pihole_stats /\ State.pivpn = pivpn_stats

\* C17: a cycle in which a collector raises changes none of the three
\* records of STATE; it only sets last_error to the exception's text, so
\* STATE still holds the records of the last cycle that succeeded.
C17_FailedCycleKeepsRecords ==
    [][ (pc = "collect" /\ pc' = "sleep") =>
            /\ State'.system = State.system /\ State'.pihole = State.pihole /\ State'.pivpn = State.pivpn
            /\ DOMAIN State' = DOMAIN State \cup {"last_error"}
            /\ State'.last_error \in FaultTexts
            /\ State'.system = system_stats' /\ State'.pihole = pihole_stats' /\ State'.pivpn = pivpn_stats' ]_vars

\* the vpn collector raised in cycle 2; /health still shows cycle 1
C17_Witness ==
    /\ cycle = 2 /\ pc = "sleep"
    /\ Get(State, "last_error", None) = FaultText("pivpn")
    /\ CycleOf(State.system) = 1 /\ CycleOf(State.pihole) = 1 /\ CycleOf(State.pivpn) = 1
    /\ hpc = "done" /\ path = "/health"
    /\ resp.body.last_update = Num(1) /\ resp.body.last_error = FaultText("pivpn")

\* C18: last_error is absent when the loop starts; it never disappears once
\* set; it changes only in a step in which a cycle fails; and a /health that
\* reads it while it is set reports it, also after a cycle has succeeded.
C18_StickyLastError ==
    /\ []((cycle = 1 /\ pc = "collect") => "last_error" \notin DOMAIN State)
    /\ [][ /\ "last_error" \in DOMAIN State => "last_error" \in DOMAIN State'
           /\ Get(State', "last_error", None) # Get(State, "last_error", None) => (pc = "collect" /\ pc' = "sleep")
           /\ (hpc = "read_last_error" /\ hpc' = "done" /\ path = "/health" /\ "last_error" \in DOMAIN State) =>
                 (resp'.body.last_error = State.last_error /\ resp'.body.last_error # None) ]_vars

\* cycle 1 failed, cycle 2 succeeded, and /health reports both
C18_Witness ==
    /\ cycle = 2 /\ pc = "sleep"
    /\ CycleOf(State.system) = 2 /\ CycleOf(State.pivpn) = 2
    /\ "last_error" \in DOMAIN State
    /\ hpc = "done" /\ path = "/health"
    /\ resp.body.last_update = Num(2) /\ resp.body.last_error \in FaultTexts

\* number of the cycle that built a record among the successful cycles
SeqOf(r) == Get(r, "seq", 0)

\* C19: with the successful cycles numbered from 1, the numbers s, p, v of
\* the stored system, pihole and pivpn records satisfy s >= p >= v and
\* s - v <= 1.
C19_BoundedSkew ==
    /\ SeqOf(State.system) >= SeqOf(State.pihole)
    /\ SeqOf(State.pihole) >= SeqOf(State.pivpn)
    /\ SeqOf(State.system) - SeqOf(State.pivpn) <= 1

\* the second successful cycle has stored its system record only
C19_Witness ==
    /\ pc = "store_pihole"
    /\ SeqOf(State.system) = 2 /\ SeqOf(State.pihole) = 1 /\ SeqOf(State.pivpn) = 1
====
